---- MODULE Spec2Model ----
(***************************************************************************)
(* Radyo: a catalog of geo-located radio stations shown on a rotating      *)
(* globe.  This module models the orchestrator of src/App.tsx (initial     *)
(* load, text search, mood search), the two service wrappers it calls      *)
(* (src/services/radioService.ts, src/services/geminiService.ts) and the   *)
(* record types of src/unnamed/part_000 (the types module).                *)
(***************************************************************************)
EXTENDS Integers, Sequences, FiniteSets, TLC

(***************************************************************************)
(* Bounds of the model.                                                    *)
(***************************************************************************)
\* total number of records the three initial-load responses hold together
\* when the merge pipeline is exercised as a pure function
MaxMerged == 4
\* longest response body of one catalog query in the handler specifications
MaxResults == 2
\* number of search / mood handler invocations in one behaviour
MaxRequests == 1
\* number of getStationInsight calls that may be pending together
MaxInsights == 2
\* number of frames rendered after the globe has mounted
MaxFrames == 2

(***************************************************************************)
(* JavaScript values.  A nullable number (geo_lat: number | null) is the   *)
(* empty tuple for null and a one-element tuple for a number, so that the  *)
(* two can be compared.  A string the code inspects character by character *)
(* (country, tags) is a tuple of one-character strings.  A string the code *)
(* only tests for truthiness and passes on is a TLA+ string, with          *)
(* UNDEFINED standing for an absent property.                              *)
(***************************************************************************)
Null == << >>

Num(x) == << x >>

UNDEFINED == "undefined"

\* ToBoolean of a number | null: null, 0 (and NaN) are falsy
TruthyNum(v) == v # Null /\ v[1] # 0

\* ToBoolean of an optional string: undefined and "" are falsy
TruthyStr(v) == v # UNDEFINED /\ v # ""

UpperChars == << "A", "B", "C", "D", "E", "F", "G", "H", "I", "J", "K", "L", "M",
                 "N", "O", "P", "Q", "R", "S", "T", "U", "V", "W", "X", "Y", "Z" >>

LowerChars == << "a", "b", "c", "d", "e", "f", "g", "h", "i", "j", "k", "l", "m",
                 "n", "o", "p", "q", "r", "s", "t", "u", "v", "w", "x", "y", "z" >>

\* String.prototype.toLowerCase on a tuple of characters
toLowerCase(str) ==
    [i \in 1..Len(str) |->
        IF \E k \in 1..Len(UpperChars) : UpperChars[k] = str[i]
        THEN LowerChars[CHOOSE k \in 1..Len(UpperChars) : UpperChars[k] = str[i]]
        ELSE str[i]]

\* String.prototype.includes on tuples of characters
includes(str, sub) ==
    \E i \in 1..(Len(str) - Len(sub) + 1) : SubSeq(str, i, i + Len(sub) - 1) = sub

(***************************************************************************)
(* RadioStation records (the fields the orchestrator reads).               *)
(***************************************************************************)
RadioStation(id, nm, cc, ctry, tg, lat, long) ==
    [stationuuid |-> id, name |-> nm, countrycode |-> cc, country |-> ctry,
     tags |-> tg, geo_lat |-> lat, geo_long |-> long]

StrTurkey == << "T", "u", "r", "k", "e", "y" >>

StrGermany == << "G", "e", "r", "m", "a", "n", "y" >>

StrFrance == << "F", "r", "a", "n", "c", "e" >>

TagsPop == << "p", "o", "p" >>

TagsTurkishPop == << "p", "o", "p", ",", "T", "U", "R", "K", "I", "S", "H" >>

TagsRock == << "r", "o", "c", "k" >>

\* id a, Turkish by country code, both coordinates
FooA == RadioStation("a", "Foo", "TR", StrTurkey, TagsPop, Num(41), Num(29))

\* id a again with other content: not Turkish, both coordinates
BarA == RadioStation("a", "Bar", "DE", StrGermany, TagsRock, Num(52), Num(13))

\* id a again: latitude only
BazA == RadioStation("a", "Baz", "TR", StrTurkey, TagsPop, Num(41), Null)

\* id b, not Turkish, both coordinates
OrdB == RadioStation("b", "Berlin", "DE", StrGermany, TagsRock, Num(52), Num(13))

\* id b again: on the equator, both coordinates present
ZeroB == RadioStation("b", "Equator", "DE", StrGermany, TagsRock, Num(0), Num(13))

\* id c, Turkish by its tags only, both coordinates
TagC == RadioStation("c", "Koeln", "DE", StrGermany, TagsTurkishPop, Num(50), Num(6))

\* id d, not Turkish, both coordinates
OrdD == RadioStation("d", "Paris", "FR", StrFrance, TagsPop, Num(48), Num(2))

StationPool == { FooA, BarA, BazA, OrdB, ZeroB, TagC, OrdD }

BoundedSeq(S, n) == UNION { [1..k -> S] : k \in 0..n }

(***************************************************************************)
(* The merge pipeline of the initial load (App.tsx, init).                 *)
(***************************************************************************)
\* the test  s.geo_lat && s.geo_long  of the init and search filters
hasGeo_latOnly(s) == TruthyNum(s.geo_lat)

hasGeo(s) == TruthyNum(s.geo_lat) /\ TruthyNum(s.geo_long)

\* [...turkishData, ...turkishTagData, ...globalData]
allStations_globalFirst(turkishData, turkishTagData, globalData) ==
    globalData \o turkishData \o turkishTagData

allStations(turkishData, turkishTagData, globalData) ==
    turkishData \o turkishTagData \o globalData

\* uniqueStations.has(uuid): the Map is modelled by its values in insertion order
mapHas(map, uuid) == \E i \in 1..Len(map) : map[i].stationuuid = uuid

\* one iteration of allStations.forEach
forEachStep_noHas(map, s) == IF hasGeo(s) THEN Append(map, s) ELSE map

forEachStep(map, s) ==
    IF hasGeo(s) /\ ~mapHas(map, s.stationuuid) THEN Append(map, s) ELSE map

RECURSIVE uniqueStations(_)
\* Array.from(uniqueStations.values()) after the forEach over all
uniqueStations(all) ==
    IF all = << >> THEN << >>
    ELSE forEachStep(uniqueStations(SubSeq(all, 1, Len(all) - 1)), all[Len(all)])

isTurkish(s) ==
    \/ s.countrycode = "TR"
    \/ toLowerCase(s.country) = << "t", "u", "r", "k", "e", "y" >>
    \/ includes(toLowerCase(s.tags), << "t", "u", "r", "k", "e", "y" >>)
    \/ includes(toLowerCase(s.tags), << "t", "u", "r", "k", "i", "s", "h" >>)

\* isTurkish of every record of the pool, evaluated once
IsTR == [s \in StationPool |-> isTurkish(s)]

compareFn_swapped(a, b) ==
    IF IsTR[a] /\ ~IsTR[b] THEN 1
    ELSE IF ~IsTR[a] /\ IsTR[b] THEN -1
    ELSE 0

\* the comparator handed to finalStations.sort
compareFn(a, b) ==
    IF IsTR[a] /\ ~IsTR[b] THEN -1
    ELSE IF ~IsTR[a] /\ IsTR[b] THEN 1
    ELSE 0

\* insertion of x behind the last element that does not compare greater
insertSorted_unstable(sorted, x) ==
    LET k == CHOOSE k \in 0..Len(sorted) :
                 /\ \A i \in 1..k : compareFn(sorted[i], x) < 0
                 /\ k < Len(sorted) => compareFn(sorted[k + 1], x) >= 0
    IN  SubSeq(sorted, 1, k) \o << x >> \o SubSeq(sorted, k + 1, Len(sorted))

insertSorted(sorted, x) ==
    LET k == CHOOSE k \in 0..Len(sorted) :
                 /\ \A i \in 1..k : compareFn(sorted[i], x) <= 0
                 /\ k < Len(sorted) => compareFn(sorted[k + 1], x) > 0
    IN  SubSeq(sorted, 1, k) \o << x >> \o SubSeq(sorted, k + 1, Len(sorted))

RECURSIVE sort(_)
\* Array.prototype.sort(compareFn): a stable sort (ES2019), as an insertion sort
sort(arr) ==
    IF arr = << >> THEN << >>
    ELSE insertSorted(sort(SubSeq(arr, 1, Len(arr) - 1)), arr[Len(arr)])

\* the value handed to setStations by init
finalStations(turkishData, turkishTagData, globalData) ==
    sort(uniqueStations(allStations(turkishData, turkishTagData, globalData)))

(***************************************************************************)
(* The StationSource wrappers (radioService.ts).  A wire call ends in one  *)
(* of: fetch rejects ("network"), a non-success status ("status"), a body  *)
(* that is no JSON ("parse"), or a body holding an array of records.       *)
(***************************************************************************)
\* records a catalog query of the handlers answers with
AppPool == { FooA, BazA }

Bodies == BoundedSeq(AppPool, MaxResults)

WireOutcomes ==
    { [kind |-> k, body |-> << >>] : k \in {"network", "status", "parse"} }
    \cup { [kind |-> "ok", body |-> b] : b \in Bodies }

Fulfilled(v) == [state |-> "fulfilled", value |-> v]

Rejected == [state |-> "rejected", value |-> << >>]

\* the try block of both wrappers: fetch, the response.ok test, response.json()
tryFetch(outcome) ==
    IF outcome.kind = "ok"
    THEN [threw |-> FALSE, value |-> outcome.body]
    ELSE [threw |-> TRUE, value |-> << >>]

fetchTopStations(limit, outcome) ==
    LET t == tryFetch(outcome)
    IN  IF t.threw THEN Fulfilled(<< >>) ELSE Fulfilled(t.value)

searchStations_rethrow(filter, outcome) ==
    LET t == tryFetch(outcome)
    IN  IF t.threw THEN Rejected ELSE Fulfilled(t.value)

searchStations(filter, outcome) ==
    LET t == tryFetch(outcome)
    IN  IF t.threw THEN Fulfilled(<< >>) ELSE Fulfilled(t.value)

\* a StationFilter object; UNDEFINED marks a property that is not set
StationFilter(ctry, tg, nm, lim) ==
    [country |-> ctry, tag |-> tg, name |-> nm, limit |-> lim]

(***************************************************************************)
(* The InferenceSource wrapper for mood requests (geminiService.ts).       *)
(* generateContent either rejects, returns no text, returns text that is   *)
(* no JSON, or returns JSON text: of an object, or the text null.          *)
(***************************************************************************)
AIMoodResponse(ctry, tg, expl) ==
    [country |-> ctry, tag |-> tg, explanation |-> expl, isNull |-> FALSE]

\* JSON.parse("null"): the value null, on which a property read throws
JsonNull ==
    [country |-> UNDEFINED, tag |-> UNDEFINED, explanation |-> UNDEFINED, isNull |-> TRUE]

ParsedObjects ==
    { AIMoodResponse(c, g, e) :
        c \in {UNDEFINED, "Japan"}, g \in {UNDEFINED, "jazz"},
        e \in {UNDEFINED, "smoky downtempo vibes"} }

InferenceOutcomes ==
    { [kind |-> k, value |-> AIMoodResponse(UNDEFINED, UNDEFINED, UNDEFINED)] :
        k \in {"reject", "notext", "badjson"} }
    \cup { [kind |-> "json", value |-> o] : o \in ParsedObjects \cup {JsonNull} }

\* the object returned by the catch block
FallbackMood ==
    AIMoodResponse(UNDEFINED, "pop",
                   "Couldn't quite catch that vibe. Try 'Jazz from France'.")

getMoodRecommendation(outcome) ==
    IF outcome.kind = "json" THEN outcome.value ELSE FallbackMood

(***************************************************************************)
(* getStationInsight (geminiService.ts): generateContent returns text      *)
(* written for the station named in the prompt, returns no text, or        *)
(* rejects.                                                                *)
(***************************************************************************)
InsightOutcomes == {"text", "notext", "reject"}

\* the text the InferenceSource writes when asked about a station
InsightText(name) == "About " \o name

getStationInsight(name, country, tags, outcome) ==
    CASE outcome = "text"   -> InsightText(name)
      [] outcome = "notext" -> "Enjoy the tunes!"
      [] outcome = "reject" -> "Tuning into global frequencies..."

(***************************************************************************)
(* What the two external services can answer with in one behaviour.  The   *)
(* scenario is fixed by the initial state: "full" lets the StationSource   *)
(* answer with every body over AppPool and the InferenceSource with every  *)
(* outcome; the other scenarios pick a few answers, for the specifications *)
(* that run many handlers side by side.                                    *)
(***************************************************************************)
ScenarioBodies(sc) ==
    CASE sc = "full"    -> Bodies
      [] sc = "single"  -> { << FooA >> }
      [] sc = "pair"    -> { << FooA, OrdB >>, << FooA, FooA >> }
      [] sc = "twice"   -> { << FooA, OrdB >>, << BarA, BarA >> }
      [] OTHER          -> { }

ScenarioMoods(sc) ==
    IF sc = "full" THEN InferenceOutcomes
    ELSE { o \in InferenceOutcomes :
             \/ o.kind = "reject"
             \/ o.kind = "json" /\ o.value =
                   AIMoodResponse("Japan", "jazz", "smoky downtempo vibes") }

SourceOutcomes(sc) ==
    { o \in WireOutcomes : o.kind # "ok" }
    \cup { [kind |-> "ok", body |-> b] : b \in ScenarioBodies(sc) }

(***************************************************************************)
(* The filters of the search and mood handlers (App.tsx).                  *)
(***************************************************************************)
\* results.filter(s => s.geo_lat && s.geo_long)
mapped(results) == SelectSeq(results, hasGeo)

\* looseResults.filter(s => s.geo_lat)
looseFilter(looseResults) == SelectSeq(looseResults, LAMBDA s : TruthyNum(s.geo_lat))

\* filter = { limit: 50 } plus the truthy country and tag of the response
moodFilter(response) ==
    StationFilter(IF TruthyStr(response.country) THEN response.country ELSE UNDEFINED,
                  IF TruthyStr(response.tag) THEN response.tag ELSE UNDEFINED,
                  UNDEFINED, 50)

\* { tag: response.tag, limit: 50 }
looseQuery(response) == StationFilter(UNDEFINED, response.tag, UNDEFINED, 50)

\* mapped.length === 0 && response.tag
needsLooseSearch(mappedResults, response) ==
    Len(mappedResults) = 0 /\ TruthyStr(response.tag)

\* `Found ${mapped.length} stations.`
FoundText(n) ==
    CASE n = 1 -> "Found 1 stations."
      [] n = 2 -> "Found 2 stations."
      [] n = 3 -> "Found 3 stations."
      [] OTHER -> "Found more stations."

(***************************************************************************)
(* State.                                                                  *)
(***************************************************************************)
VARIABLES
    stations,   \* useState<RadioStation[]>
    loading,    \* useState(false)
    aiInsight,  \* useState<string>
    initLoad,   \* the init() invocation of the mount effect
    reqs,       \* the handleSearch / handleAIMood invocations
    escaped,    \* handler invocations an exception escaped from
    scenario,   \* what the external services can answer with
    currentStation, \* useState<RadioStation | null>
    isPlaying,  \* useState(false)
    audio,      \* what the audio element is doing
    insights,   \* the getStationInsight calls that have not settled
    hovered,    \* the station markers whose hovered state is true
    refs,       \* which of earthRef, cloudsRef and the EarthRotator ref are set
    rotation,   \* rotation.y of the earth mesh, the cloud mesh and the marker group
    recPc,      \* position of the pure-function run of the merge pipeline
    recIn,      \* the three result sets handed to the pipeline
    recOut,     \* its result
    recAgain    \* the results of feeding recOut back in as the single source

appVars == << stations, loading, aiInsight, initLoad, reqs, escaped >>

recVars == << recPc, recIn, recOut, recAgain >>

uiVars == << currentStation, isPlaying, audio, insights, hovered, refs, rotation >>

\* the interface state that installing a catalog leaves alone
otherUi == << currentStation, isPlaying, audio, insights, refs, rotation >>

\* the keys of the StationMarker elements rendered for a catalog: a marker
\* whose key leaves the catalog is unmounted and loses its hovered state
MarkerKeys(catalog) == { catalog[n].stationuuid : n \in 1..Len(catalog) }

vars == << stations, loading, aiInsight, initLoad, reqs, escaped, scenario,
           currentStation, isPlaying, audio, insights, hovered, refs, rotation,
           recPc, recIn, recOut, recAgain >>

(***************************************************************************)
(* The merge pipeline as a pure function: SpecReconcile draws the three    *)
(* result sets, applies the pipeline, and feeds the result back in.        *)
(***************************************************************************)
\* a handler invocation slot: the locals of the invocation (response, the
\* raw results of its latest source query) and a record of what it has done
\* (the filters it queried with, the calls it made, how often it called
\* setStations and with what)
NoRequest ==
    [kind |-> "none", pc |-> "none",
     response |-> AIMoodResponse(UNDEFINED, UNDEFINED, UNDEFINED),
     queries |-> << >>, results |-> << >>, installs |-> 0, catalog |-> << >>,
     events |-> << >>]

InitQueries == {"country", "tag", "global"}

AppIdle ==
    /\ stations = << >>
    /\ loading = FALSE
    /\ aiInsight = "Welcome! Select a station to begin."
    /\ initLoad = [pc |-> "start",
                   q |-> [k \in InitQueries |->
                            [state |-> "unissued", value |-> << >>, failed |-> FALSE]]]
    /\ reqs = [i \in 1..MaxRequests |-> NoRequest]
    /\ escaped = {}
    /\ currentStation = << >>
    /\ isPlaying = FALSE
    /\ audio = "empty"
    /\ insights = << >>
    /\ hovered = {}
    /\ refs = [earth |-> FALSE, clouds |-> FALSE, rotator |-> FALSE]
    /\ rotation = [earth |-> 0, clouds |-> 0, markers |-> 0]

RecIdle ==
    /\ recPc = "idle"
    /\ recIn = << << >>, << >>, << >> >>
    /\ recOut = << >>
    /\ recAgain = << >>

\* every split of a sequence of at most MaxMerged pool records into
\* turkishData, turkishTagData and globalData of at most MaxResults each
RecInit ==
    /\ AppIdle
    /\ scenario = "full"
    /\ recPc = "input"
    /\ \E all \in BoundedSeq(StationPool, MaxMerged) :
         \E i \in 0..Len(all) : \E j \in i..Len(all) :
            /\ i <= MaxResults /\ j - i <= MaxResults /\ Len(all) - j <= MaxResults
            /\ recIn = << SubSeq(all, 1, i), SubSeq(all, i + 1, j),
                          SubSeq(all, j + 1, Len(all)) >>
    /\ recOut = << >>
    /\ recAgain = << >>

Reconcile ==
    /\ recPc = "input"
    /\ recOut' = finalStations(recIn[1], recIn[2], recIn[3])
    /\ recPc' = "reconciled"
    /\ UNCHANGED << recIn, recAgain >>
    /\ UNCHANGED << appVars, scenario, uiVars >>

\* the reconciled sequence as the only non-empty source, in each of the
\* three source positions
ReconcileAgain ==
    /\ recPc = "reconciled"
    /\ recAgain' = << finalStations(recOut, << >>, << >>),
                      finalStations(<< >>, recOut, << >>),
                      finalStations(<< >>, << >>, recOut) >>
    /\ recPc' = "again"
    /\ UNCHANGED << recIn, recOut >>
    /\ UNCHANGED << appVars, scenario, uiVars >>

RecNext == Reconcile \/ ReconcileAgain

SpecReconcile == RecInit /\ [][RecNext]_vars

\* the concatenation the pipeline worked on, in caller order
RecAll == recIn[1] \o recIn[2] \o recIn[3]

RecDone == recPc \in {"reconciled", "again"}

Present(v) == v # Null

\* index of the first record of all that carries the identifier
FirstIndex(all, uuid) ==
    CHOOSE i \in 1..Len(all) :
        /\ all[i].stationuuid = uuid
        /\ \A k \in 1..(i - 1) : all[k].stationuuid # uuid

\* index of the first record of all that carries the identifier and passes
\* the coordinate test of the loop
FirstGeoIndex(all, uuid) ==
    CHOOSE i \in 1..Len(all) :
        /\ all[i].stationuuid = uuid /\ hasGeo(all[i])
        /\ \A k \in 1..(i - 1) : ~(all[k].stationuuid = uuid /\ hasGeo(all[k]))

\* C1: for every combination of result sets, the catalog installed by the
\* initial load holds no two records with the same station identifier.
C1_NoDuplicateIds ==
    RecDone =>
        \A i, j \in 1..Len(recOut) :
            recOut[i].stationuuid = recOut[j].stationuuid => i = j

\* reached: an identifier occurs twice, geo-valid both times, in the input
C1_Witness ==
    /\ RecDone
    /\ \E i, j \in 1..Len(RecAll) :
         /\ i < j
         /\ RecAll[i].stationuuid = RecAll[j].stationuuid
         /\ hasGeo(RecAll[i]) /\ hasGeo(RecAll[j])
    /\ Len(recOut) >= 2

\* C2: for every combination of result sets, every record of the catalog
\* installed by the initial load has a latitude and a longitude.
C2_BothCoordinates ==
    RecDone =>
        \A i \in 1..Len(recOut) :
            Present(recOut[i].geo_lat) /\ Present(recOut[i].geo_long)

\* reached: the input held a record with one coordinate only, beside a
\* record that was kept
C2_Witness ==
    /\ RecDone
    /\ \E i \in 1..Len(RecAll) :
         Present(RecAll[i].geo_lat) /\ ~Present(RecAll[i].geo_long)
    /\ recOut # << >>

\* C3 as stated: the sources are concatenated country, tag, global, and a
\* record of the output is the first occurrence of its identifier in the
\* concatenation, whatever that first occurrence contains.
C3_FirstOccurrenceOnly ==
    RecDone =>
        \A i \in 1..Len(recOut) :
            recOut[i] = RecAll[FirstIndex(RecAll, recOut[i].stationuuid)]

\* C3 amended: the sources are concatenated country, tag, global; for every
\* identifier the output holds exactly the first occurrence that passes the
\* coordinate test (none when no occurrence passes it), and every later
\* occurrence is dropped whichever source produced it.
C3_FirstGeoValidOccurrence ==
    RecDone =>
        /\ \A i \in 1..Len(recOut) :
             recOut[i] = RecAll[FirstGeoIndex(RecAll, recOut[i].stationuuid)]
        /\ \A k \in 1..Len(RecAll) :
             hasGeo(RecAll[k]) =>
                Cardinality({i \in 1..Len(recOut) :
                    recOut[i].stationuuid = RecAll[k].stationuuid}) = 1

\* reached: the country source and the global source share an identifier
\* with different content, and the copy of the country source is kept
C3_Witness ==
    /\ RecDone
    /\ recIn[1] = << FooA >>
    /\ recIn[3] = << BarA >>
    /\ recOut = << FooA >>

\* C4: every priority record precedes every ordinary record, and within
\* each class the records keep the order they had after merge and
\* deduplication.
C4_StablePartition ==
    RecDone =>
        LET merged == uniqueStations(RecAll)
        IN  recOut = SelectSeq(merged, LAMBDA s : IsTR[s])
                     \o SelectSeq(merged, LAMBDA s : ~IsTR[s])

\* reached: [p1, o1, p2, o2] becomes [p1, p2, o1, o2]
C4_Witness ==
    /\ RecDone
    /\ RecAll = << FooA, OrdB, TagC, OrdD >>
    /\ recOut = << FooA, TagC, OrdB, OrdD >>

\* C5: feeding a reconciled sequence back in as the single source returns
\* the same sequence, same records in the same order, whichever of the three
\* source positions it is fed into.
C5_Idempotent == recPc = "again" => \A k \in 1..3 : recAgain[k] = recOut

\* reached: a reconciled sequence with two records in each class was fed
\* back in
C5_Witness ==
    /\ recPc = "again"
    /\ Len(SelectSeq(recOut, LAMBDA s : IsTR[s])) >= 2
    /\ Len(SelectSeq(recOut, LAMBDA s : ~IsTR[s])) >= 2

\* C6 as stated: every first-occurrence input record whose latitude and
\* longitude are both present, 0 included, is in the reconciled catalog.
C6_PresentCoordinatesKept ==
    RecDone =>
        \A k \in 1..Len(RecAll) :
            ( /\ k = FirstIndex(RecAll, RecAll[k].stationuuid)
              /\ Present(RecAll[k].geo_lat) /\ Present(RecAll[k].geo_long) )
            => \E i \in 1..Len(recOut) : recOut[i] = RecAll[k]

(***************************************************************************)
(* The initial load: init() of the mount effect (App.tsx).                 *)
(***************************************************************************)
\* setLoading(true) and the three calls handed to Promise.all
InitStart ==
    /\ initLoad.pc = "start"
    /\ loading' = TRUE
    /\ initLoad' = [pc |-> "waiting",
                    q |-> [k \in InitQueries |->
                             [state |-> "pending", value |-> << >>, failed |-> FALSE]]]
    /\ UNCHANGED << stations, aiInsight, reqs, escaped >>
    /\ UNCHANGED << scenario, uiVars, recVars >>

\* one of the three calls settles
InitQuerySettle(k) ==
    /\ initLoad.pc = "waiting"
    /\ initLoad.q[k].state = "pending"
    /\ \E outcome \in SourceOutcomes(scenario) :
         LET settled ==
               CASE k = "global"  -> fetchTopStations(50, outcome)
                 [] k = "country" ->
                      searchStations(StationFilter("Turkey", UNDEFINED, UNDEFINED, 200),
                                     outcome)
                 [] k = "tag" ->
                      searchStations(StationFilter(UNDEFINED, "turkish", UNDEFINED, 100),
                                     outcome)
         IN  initLoad' = [initLoad EXCEPT !.q[k] =
                            [state |-> settled.state, value |-> settled.value,
                             failed |-> outcome.kind # "ok"]]
    /\ UNCHANGED << stations, loading, aiInsight, reqs, escaped >>
    /\ UNCHANGED << scenario, uiVars, recVars >>

\* Promise.all is fulfilled once all three are, and rejected as soon as one is
PromiseAllSettled ==
    \/ \A k \in InitQueries : initLoad.q[k].state = "fulfilled"
    \/ \E k \in InitQueries : initLoad.q[k].state = "rejected"

\* an init that leaves the catalog alone once a request has installed one
InitResume_latestWins ==
    /\ initLoad.pc = "waiting"
    /\ PromiseAllSettled
    /\ IF \/ \E k \in InitQueries : initLoad.q[k].state = "rejected"
          \/ \E i \in 1..MaxRequests : reqs[i].installs > 0
       THEN UNCHANGED stations
       ELSE stations' = finalStations(initLoad.q["country"].value,
                                      initLoad.q["tag"].value,
                                      initLoad.q["global"].value)
    /\ loading' = FALSE
    /\ initLoad' = [initLoad EXCEPT !.pc = "done"]
    /\ UNCHANGED << aiInsight, reqs, escaped >>
    /\ hovered' = hovered \cap MarkerKeys(stations')
    /\ UNCHANGED << scenario, otherUi, recVars >>

\* the rest of init: the try block after the await, catch and finally
InitResume ==
    /\ initLoad.pc = "waiting"
    /\ PromiseAllSettled
    /\ IF \E k \in InitQueries : initLoad.q[k].state = "rejected"
       THEN UNCHANGED stations
       ELSE stations' = finalStations(initLoad.q["country"].value,
                                      initLoad.q["tag"].value,
                                      initLoad.q["global"].value)
    /\ loading' = FALSE
    /\ initLoad' = [initLoad EXCEPT !.pc = "done"]
    /\ UNCHANGED << aiInsight, reqs, escaped >>
    /\ hovered' = hovered \cap MarkerKeys(stations')
    /\ UNCHANGED << scenario, otherUi, recVars >>

(***************************************************************************)
(* handleSearch (App.tsx).                                                 *)
(***************************************************************************)
\* invocations take the slots in order
FreeSlot(i) ==
    /\ reqs[i].kind = "none"
    /\ \A k \in 1..(i - 1) : reqs[k].kind # "none"

SearchStart(i) ==
    /\ FreeSlot(i)
    /\ loading' = TRUE
    /\ reqs' = [reqs EXCEPT ![i] =
                  [NoRequest EXCEPT
                     !.kind = "search", !.pc = "query",
                     !.queries = << StationFilter(UNDEFINED, UNDEFINED, "rock", 50) >>,
                     !.events = << "search:call" >>]]
    /\ UNCHANGED << stations, aiInsight, initLoad, escaped >>
    /\ UNCHANGED << scenario, uiVars, recVars >>

SearchSettle(i) ==
    /\ reqs[i].kind = "search"
    /\ reqs[i].pc = "query"
    /\ \E outcome \in SourceOutcomes(scenario) :
         LET results == searchStations(reqs[i].queries[1], outcome).value
         IN  /\ stations' = mapped(results)
             /\ aiInsight' = IF Len(mapped(results)) = 0
                             THEN "No stations found for that search."
                             ELSE FoundText(Len(mapped(results)))
             /\ reqs' = [reqs EXCEPT ![i].pc = "done", ![i].results = results,
                                     ![i].installs = @ + 1,
                                     ![i].catalog = mapped(results),
                                     ![i].events = Append(@, "search:done")]
    /\ loading' = FALSE
    /\ UNCHANGED << initLoad, escaped >>
    /\ hovered' = hovered \cap MarkerKeys(stations')
    /\ UNCHANGED << scenario, otherUi, recVars >>

(***************************************************************************)
(* handleAIMood (App.tsx).                                                 *)
(***************************************************************************)
MoodStart(i) ==
    /\ FreeSlot(i)
    /\ loading' = TRUE
    /\ aiInsight' = "AI is finding your frequency..."
    /\ reqs' = [reqs EXCEPT ![i] =
                  [NoRequest EXCEPT !.kind = "mood", !.pc = "infer",
                                    !.events = << "inference:call" >>]]
    /\ UNCHANGED << stations, initLoad, escaped >>
    /\ UNCHANGED << scenario, uiVars, recVars >>

\* getMoodRecommendation settles: the explanation is shown, the filter is
\* built and the primary query is issued; on the value null the read of
\* response.explanation throws and the invocation ends there
MoodInferred(i) ==
    /\ reqs[i].kind = "mood"
    /\ reqs[i].pc = "infer"
    /\ \E outcome \in ScenarioMoods(scenario) :
         LET response == getMoodRecommendation(outcome)
         IN  IF response.isNull
             THEN \* response.explanation throws a TypeError nothing catches
                  /\ reqs' = [reqs EXCEPT ![i].pc = "threw", ![i].response = response,
                                          ![i].events = Append(@, "inference:done")]
                  /\ escaped' = escaped \cup {i}
                  /\ UNCHANGED aiInsight
             ELSE /\ aiInsight' = response.explanation
                  /\ reqs' = [reqs EXCEPT ![i].pc = "primary", ![i].response = response,
                                          ![i].queries = << moodFilter(response) >>,
                                          ![i].events = @ \o << "inference:done",
                                                                "primary:call" >>]
                  /\ UNCHANGED escaped
    /\ UNCHANGED << stations, loading, initLoad >>
    /\ UNCHANGED << scenario, uiVars, recVars >>

\* the primary query settles: either the loose query is issued or the
\* filtered primary result is installed
MoodPrimarySettle(i) ==
    /\ reqs[i].kind = "mood"
    /\ reqs[i].pc = "primary"
    /\ \E outcome \in SourceOutcomes(scenario) :
         LET results == searchStations(reqs[i].queries[1], outcome).value
         IN  IF needsLooseSearch(mapped(results), reqs[i].response)
             THEN /\ reqs' = [reqs EXCEPT
                                ![i].pc = "loose", ![i].results = results,
                                ![i].queries = Append(@, looseQuery(reqs[i].response)),
                                ![i].events = @ \o << "primary:done", "loose:call" >>]
                  /\ UNCHANGED << stations, loading >>
             ELSE /\ stations' = mapped(results)
                  /\ loading' = FALSE
                  /\ reqs' = [reqs EXCEPT
                                ![i].pc = "done", ![i].results = results,
                                ![i].installs = @ + 1,
                                ![i].catalog = mapped(results),
                                ![i].events = Append(@, "primary:done")]
    /\ UNCHANGED << aiInsight, initLoad, escaped >>
    /\ hovered' = hovered \cap MarkerKeys(stations')
    /\ UNCHANGED << scenario, otherUi, recVars >>

\* a handler that loosens again while the result stays empty
MoodLooseSettle_retry(i) ==
    /\ reqs[i].kind = "mood"
    /\ reqs[i].pc = "loose"
    /\ \E outcome \in SourceOutcomes(scenario) :
         LET looseResults == searchStations(reqs[i].queries[2], outcome).value
         IN  IF Len(looseFilter(looseResults)) = 0
             THEN /\ reqs' = [reqs EXCEPT
                                ![i].results = looseResults,
                                ![i].queries = Append(@, looseQuery(reqs[i].response)),
                                ![i].events = @ \o << "loose:done", "loose:call" >>]
                  /\ UNCHANGED << stations, loading >>
             ELSE /\ stations' = looseFilter(looseResults)
                  /\ loading' = FALSE
                  /\ reqs' = [reqs EXCEPT ![i].pc = "done", ![i].results = looseResults,
                                          ![i].installs = @ + 1,
                                          ![i].catalog = looseFilter(looseResults),
                                          ![i].events = Append(@, "loose:done")]
    /\ UNCHANGED << aiInsight, initLoad, escaped >>
    /\ hovered' = hovered \cap MarkerKeys(stations')
    /\ UNCHANGED << scenario, otherUi, recVars >>

\* the loose query settles and its filtered result is installed
MoodLooseSettle(i) ==
    /\ reqs[i].kind = "mood"
    /\ reqs[i].pc = "loose"
    /\ \E outcome \in SourceOutcomes(scenario) :
         LET looseResults == searchStations(reqs[i].queries[2], outcome).value
         IN  /\ stations' = looseFilter(looseResults)
             /\ reqs' = [reqs EXCEPT ![i].pc = "done", ![i].results = looseResults,
                                     ![i].installs = @ + 1,
                                     ![i].catalog = looseFilter(looseResults),
                                     ![i].events = Append(@, "loose:done")]
    /\ loading' = FALSE
    /\ UNCHANGED << aiInsight, initLoad, escaped >>
    /\ hovered' = hovered \cap MarkerKeys(stations')
    /\ UNCHANGED << scenario, otherUi, recVars >>

(***************************************************************************)
(* Station selection and playback (App.tsx).                               *)
(***************************************************************************)
\* currentStation?.stationuuid === station.stationuuid
isCurrent(station) ==
    currentStation # << >> /\ currentStation[1].stationuuid = station.stationuuid

\* play() or pause() on the audio element, as isPlaying tells
togglePlayback == IF isPlaying THEN "pausing" ELSE "loading"

\* handleStationSelect up to its await: the station is one the sidebar
\* lists or the globe renders, the n-th of the catalog
StationSelect_reselect(n) ==
    /\ n \in 1..Len(stations)
    /\ Len(insights) < MaxInsights
    /\ currentStation' = << stations[n] >>
    /\ audio' = "loading"
    /\ aiInsight' = "Tuning in..."
    /\ insights' = Append(insights, stations[n])
    /\ UNCHANGED << stations, loading, initLoad, reqs, escaped >>
    /\ UNCHANGED << isPlaying, hovered, refs, rotation >>
    /\ UNCHANGED << scenario, recVars >>

StationSelect(n) ==
    /\ n \in 1..Len(stations)
    /\ IF isCurrent(stations[n])
       THEN /\ audio' = togglePlayback
            /\ UNCHANGED << currentStation, aiInsight, insights >>
       ELSE /\ Len(insights) < MaxInsights
            /\ currentStation' = << stations[n] >>
            /\ audio' = "loading"
            /\ aiInsight' = "Tuning in..."
            /\ insights' = Append(insights, stations[n])
    /\ UNCHANGED << stations, loading, initLoad, reqs, escaped >>
    /\ UNCHANGED << isPlaying, hovered, refs, rotation >>
    /\ UNCHANGED << scenario, recVars >>

\* the rest of handleStationSelect: one of the pending getStationInsight
\* calls settles, in any order, and its text is shown
InsightSettle(n) ==
    /\ n \in 1..Len(insights)
    /\ \E outcome \in InsightOutcomes :
         aiInsight' = getStationInsight(insights[n].name, insights[n].country,
                                        insights[n].tags, outcome)
    /\ insights' = SubSeq(insights, 1, n - 1) \o SubSeq(insights, n + 1, Len(insights))
    /\ UNCHANGED << stations, loading, initLoad, reqs, escaped >>
    /\ UNCHANGED << currentStation, isPlaying, audio, hovered, refs, rotation >>
    /\ UNCHANGED << scenario, recVars >>

handlePlayPause ==
    /\ currentStation # << >>
    /\ audio' = togglePlayback
    /\ UNCHANGED << appVars, scenario, recVars >>
    /\ UNCHANGED << currentStation, isPlaying, insights, hovered, refs, rotation >>

\* the handlers the mount effect puts on the audio element
onplaying ==
    /\ initLoad.pc # "start"
    /\ audio = "loading"
    /\ audio' = "playing"
    /\ isPlaying' = TRUE
    /\ UNCHANGED << appVars, scenario, recVars >>
    /\ UNCHANGED << currentStation, insights, hovered, refs, rotation >>

onpause ==
    /\ initLoad.pc # "start"
    /\ audio = "pausing"
    /\ audio' = "paused"
    /\ isPlaying' = FALSE
    /\ UNCHANGED << appVars, scenario, recVars >>
    /\ UNCHANGED << currentStation, insights, hovered, refs, rotation >>

onerror ==
    /\ initLoad.pc # "start"
    /\ audio = "loading"
    /\ audio' = "failed"
    /\ isPlaying' = FALSE
    /\ aiInsight' = "Signal lost... try another station."
    /\ UNCHANGED << stations, loading, initLoad, reqs, escaped >>
    /\ UNCHANGED << currentStation, insights, hovered, refs, rotation >>
    /\ UNCHANGED << scenario, recVars >>

(***************************************************************************)
(* The globe (Globe3D.tsx).  Angles are in units of 0.0001 radian.         *)
(***************************************************************************)
GLOBE_RADIUS == 5

\* earthRef.current.rotation.y += 0.0005
EarthStep == 5

\* cloudsRef.current.rotation.y += 0.0007
CloudStep == 7

\* an EarthRotator that advances at the rate of the cloud shell
RotatorStep_clouds == EarthStep + 2

\* ref.current.rotation.y += 0.0005 in EarthRotator
RotatorStep == 5

\* lat || 0
OrZero(v) == IF TruthyNum(v) THEN v[1] ELSE 0

\* the point in polar form, in degrees: x, y and z are the products of the
\* radius with the sines and cosines of phi and theta
latLonToVector3_rotated(lat, lon, radius) ==
    [phi |-> 90 - lat, theta |-> lon + 180 + rotation.markers, radius |-> radius]

latLonToVector3(lat, lon, radius) ==
    [phi |-> 90 - lat, theta |-> lon + 180, radius |-> radius]

\* StationMarker returns null without both coordinates
Rendered(station) == TruthyNum(station.geo_lat) /\ TruthyNum(station.geo_long)

\* the position memoised by the n-th StationMarker, in the frame of the
\* group that holds the markers
MarkerPosition(n) ==
    latLonToVector3(OrZero(stations[n].geo_lat), OrZero(stations[n].geo_long),
                    GLOBE_RADIUS)

\* what the n-th StationMarker shows: nothing, or the colours and label of
\* one of three states
MarkerState(n) ==
    IF ~Rendered(stations[n]) THEN "none"
    ELSE IF isCurrent(stations[n]) THEN "Selected"
    ELSE IF stations[n].stationuuid \in hovered THEN "Hovered"
    ELSE "Idle"

\* the textures have loaded: the Suspense boundary commits RealisticEarth
\* and EarthRotator together, and the three refs are set
GlobeMount ==
    /\ ~refs.earth /\ ~refs.clouds /\ ~refs.rotator
    /\ refs' = [earth |-> TRUE, clouds |-> TRUE, rotator |-> TRUE]
    /\ UNCHANGED << appVars, scenario, recVars >>
    /\ UNCHANGED << currentStation, isPlaying, audio, insights, hovered, rotation >>

\* one frame: the useFrame callbacks of RealisticEarth and EarthRotator
Tick ==
    /\ rotation.clouds < MaxFrames * CloudStep
    /\ rotation' =
          [earth   |-> IF refs.earth THEN rotation.earth + EarthStep
                       ELSE rotation.earth,
           clouds  |-> IF refs.clouds THEN rotation.clouds + CloudStep
                       ELSE rotation.clouds,
           markers |-> IF refs.rotator THEN rotation.markers + RotatorStep
                       ELSE rotation.markers]
    /\ UNCHANGED << appVars, scenario, recVars >>
    /\ UNCHANGED << currentStation, isPlaying, audio, insights, hovered, refs >>

\* the pointer comes over the mesh of the n-th marker
onPointerOver(n) ==
    /\ refs.rotator
    /\ n \in 1..Len(stations)
    /\ Rendered(stations[n])
    /\ stations[n].stationuuid \notin hovered
    /\ hovered' = hovered \cup { stations[n].stationuuid }
    /\ UNCHANGED << appVars, scenario, recVars >>
    /\ UNCHANGED << currentStation, isPlaying, audio, insights, refs, rotation >>

\* the pointer leaves the mesh of the n-th marker
onPointerOut(n) ==
    /\ refs.rotator
    /\ n \in 1..Len(stations)
    /\ Rendered(stations[n])
    /\ stations[n].stationuuid \in hovered
    /\ hovered' = hovered \ { stations[n].stationuuid }
    /\ UNCHANGED << appVars, scenario, recVars >>
    /\ UNCHANGED << currentStation, isPlaying, audio, insights, refs, rotation >>

(***************************************************************************)
(* Specifications.                                                         *)
(***************************************************************************)
Init == AppIdle /\ RecIdle /\ scenario = "full"

InitQuerySettles == \E k \in InitQueries : InitQuerySettle(k)

SearchStarts == \E i \in 1..MaxRequests : SearchStart(i)

SearchSettles == \E i \in 1..MaxRequests : SearchSettle(i)

MoodStarts == \E i \in 1..MaxRequests : MoodStart(i)

MoodInfers == \E i \in 1..MaxRequests : MoodInferred(i)

MoodPrimarySettles == \E i \in 1..MaxRequests : MoodPrimarySettle(i)

MoodLooseSettles == \E i \in 1..MaxRequests : MoodLooseSettle(i)

InitNext == InitStart \/ InitQuerySettles \/ InitResume

\* the initial load alone
SpecInit == Init /\ [][InitNext]_vars

RequestNext ==
    \/ SearchStarts
    \/ SearchSettles
    \/ MoodStarts
    \/ MoodInfers
    \/ MoodPrimarySettles
    \/ MoodLooseSettles

\* search and mood requests, overlapping at will, on a mounted application
SpecMood == Init /\ [][RequestNext]_vars

Next == InitNext \/ RequestNext

\* the initial load together with the requests
Spec == Init /\ [][Next]_vars

\* the application once init has returned: the country query was answered
\* with a body and the two other queries failed
Loaded ==
    /\ \E body \in ScenarioBodies(scenario) :
         /\ stations = finalStations(body, << >>, << >>)
         /\ initLoad =
               [pc |-> "done",
                q |-> [k \in InitQueries |->
                         IF k = "country"
                         THEN [state |-> "fulfilled", value |-> body, failed |-> FALSE]
                         ELSE [state |-> "fulfilled", value |-> << >>, failed |-> TRUE]]]
    /\ loading = FALSE
    /\ aiInsight = "Welcome! Select a station to begin."
    /\ reqs = [i \in 1..MaxRequests |-> NoRequest]
    /\ escaped = {}
    /\ currentStation = << >>
    /\ isPlaying = FALSE
    /\ audio = "empty"
    /\ insights = << >>
    /\ hovered = {}
    /\ refs = [earth |-> FALSE, clouds |-> FALSE, rotator |-> FALSE]
    /\ rotation = [earth |-> 0, clouds |-> 0, markers |-> 0]

StationSelects == \E n \in 1..Len(stations) : StationSelect(n)

InsightSettles == \E n \in 1..Len(insights) : InsightSettle(n)

onPointerOvers == \E n \in 1..Len(stations) : onPointerOver(n)

onPointerOuts == \E n \in 1..Len(stations) : onPointerOut(n)

GlobeInit == scenario = "pair" /\ Loaded /\ RecIdle

GlobeNext ==
    \/ GlobeMount
    \/ Tick
    \/ onPointerOvers
    \/ onPointerOuts
    \/ StationSelects
    \/ InsightSettles
    \/ SearchStarts
    \/ SearchSettles

\* the globe: frames, pointer events and selections over catalogs that
\* searches replace
SpecGlobe == GlobeInit /\ [][GlobeNext]_vars

SelectInit == scenario = "twice" /\ Loaded /\ RecIdle

SelectNext ==
    \/ StationSelects
    \/ InsightSettles
    \/ handlePlayPause
    \/ onplaying
    \/ onpause
    \/ onerror
    \/ GlobeMount
    \/ Tick
    \/ SearchStart(1)
    \/ SearchSettle(1)
    \/ MoodStart(1)
    \/ MoodInferred(1)
    \/ MoodPrimarySettle(1)
    \/ MoodLooseSettle(1)

\* selection and playback while the globe turns and one request, a search
\* or a mood request, replaces the catalog; requests that overlap are the
\* subject of SpecOverlap
SpecSelect == SelectInit /\ [][SelectNext]_vars

\* the application once the mount effect has called init: loading is set
\* and the three queries are pending; from here on the handlers can run
Mounted ==
    /\ stations = << >>
    /\ loading = TRUE
    /\ aiInsight = "Welcome! Select a station to begin."
    /\ initLoad = [pc |-> "waiting",
                   q |-> [k \in InitQueries |->
                            [state |-> "pending", value |-> << >>, failed |-> FALSE]]]
    /\ reqs = [i \in 1..MaxRequests |-> NoRequest]
    /\ escaped = {}
    /\ currentStation = << >>
    /\ isPlaying = FALSE
    /\ audio = "empty"
    /\ insights = << >>
    /\ hovered = {}
    /\ refs = [earth |-> FALSE, clouds |-> FALSE, rotator |-> FALSE]
    /\ rotation = [earth |-> 0, clouds |-> 0, markers |-> 0]

OverlapInit == scenario = "single" /\ Mounted /\ RecIdle

OverlapNext == InitQuerySettles \/ InitResume \/ RequestNext

\* the initial load with requests issued while it is in flight
SpecOverlap == OverlapInit /\ [][OverlapNext]_vars

(***************************************************************************)
(* Properties of the initial load and of the mood request.                 *)
(***************************************************************************)
\* what a query of the initial load counts for: nothing when it failed
InitValue(k) == IF initLoad.q[k].failed THEN << >> ELSE initLoad.q[k].value

\* C7: the three queries of the initial load are in flight together, the
\* catalog is reconciled only after all three have settled, a failed query
\* counts as an empty result set, and when all three fail the catalog is
\* empty; no exception leaves init.
C7_InitLoadSurvivesFailures ==
    /\ initLoad.pc = "waiting" =>
          \A k \in InitQueries : initLoad.q[k].state # "unissued"
    /\ initLoad.pc # "done" => stations = << >>
    /\ initLoad.pc = "done" =>
          /\ \A k \in InitQueries : initLoad.q[k].state \notin {"unissued", "pending"}
          /\ stations = finalStations(InitValue("country"), InitValue("tag"),
                                      InitValue("global"))
          /\ (\A k \in InitQueries : initLoad.q[k].failed) => stations = << >>
          /\ loading = FALSE
    /\ escaped = {}

\* reached: the country query failed, the others did not, and the catalog
\* installed holds their records
C7_Witness ==
    /\ initLoad.pc = "done"
    /\ initLoad.q["country"].failed
    /\ ~initLoad.q["tag"].failed /\ ~initLoad.q["global"].failed
    /\ stations # << >>

\* the calls of one mood request, in the only order they can be made
MoodCallOrder ==
    << "inference:call", "inference:done", "primary:call", "primary:done",
       "loose:call", "loose:done" >>

MoodRequests == { i \in 1..MaxRequests : reqs[i].kind = "mood" }

\* C8: within one mood request the inference call precedes the primary
\* query, the primary query completes before the fallback query is issued,
\* and the fallback query is issued at most once: at most two source
\* queries per request.
C8_MoodCallOrdering ==
    \A i \in MoodRequests :
        /\ Len(reqs[i].events) <= Len(MoodCallOrder)
        /\ reqs[i].events = SubSeq(MoodCallOrder, 1, Len(reqs[i].events))
        /\ Len(reqs[i].queries) <= 2
        /\ Len(reqs[i].queries) =
              Cardinality({ n \in 1..Len(reqs[i].events) :
                              reqs[i].events[n] \in {"primary:call", "loose:call"} })

\* reached: a mood request that issued the fallback query and completed
C8_Witness ==
    \E i \in MoodRequests :
        /\ reqs[i].pc = "done"
        /\ reqs[i].events = MoodCallOrder
        /\ Len(reqs[i].queries) = 2

\* a record with a latitude and a longitude
GeoValid(s) == Present(s.geo_lat) /\ Present(s.geo_long)

LooseIssued(i) == \E n \in 1..Len(reqs[i].events) : reqs[i].events[n] = "loose:call"

\* C9 as stated: the fallback query is issued exactly when the primary
\* query yielded no geo-valid record and the filter has a tag; it carries
\* the tag only; the catalog installed is the geo-filtered result of the
\* fallback query when it was issued and of the primary query otherwise;
\* a completed request has installed exactly one catalog.
C9_FallbackIffEmptyAndTagged ==
    \A i \in MoodRequests :
        /\ reqs[i].pc = "loose" =>
              /\ SelectSeq(reqs[i].results, GeoValid) = << >>
              /\ reqs[i].queries[1].tag # UNDEFINED
              /\ reqs[i].queries[2] =
                    StationFilter(UNDEFINED, reqs[i].queries[1].tag, UNDEFINED, 50)
        /\ (reqs[i].pc = "done" /\ ~LooseIssued(i)) =>
              ~( /\ SelectSeq(reqs[i].results, GeoValid) = << >>
                 /\ reqs[i].queries[1].tag # UNDEFINED )
        /\ reqs[i].pc = "done" =>
              /\ reqs[i].installs = 1
              /\ reqs[i].catalog = SelectSeq(reqs[i].results, GeoValid)

\* C10 as stated: every record of the catalog a mood request installed,
\* from the primary query or from the fallback query, has a latitude and a
\* longitude.
C10_MoodCatalogGeoValid ==
    \A i \in MoodRequests :
        reqs[i].pc = "done" =>
            \A n \in 1..Len(reqs[i].catalog) : GeoValid(reqs[i].catalog[n])

\* a mood request whose inference call has settled
Inferred(i) == reqs[i].kind = "mood" /\ reqs[i].pc # "infer"

\* C11 as stated: the response a mood request works with after the
\* inference call is the fixed fallback whenever the call did not produce an
\* object of the required shape, so every response the query step consumes
\* is an object carrying an explanation string.
C11_MoodFilterHasExplanation ==
    \A i \in MoodRequests :
        Inferred(i) =>
            /\ ~reqs[i].response.isNull
            /\ reqs[i].response.explanation # UNDEFINED

\* C12 as stated: no exception escapes a search or mood handler, and a
\* request that has ended has installed a catalog and cleared the loading
\* flag it raised.
C12_NoExceptionEscapes ==
    /\ escaped = {}
    /\ \A i \in 1..MaxRequests :
          /\ reqs[i].pc # "threw"
          /\ reqs[i].pc = "done" => reqs[i].installs = 1
    /\ (\A i \in 1..MaxRequests : reqs[i].pc \in {"none", "done", "threw"}) =>
          loading = FALSE

(***************************************************************************)
(* Properties of the globe and of the selection.                           *)
(***************************************************************************)
\* C13: after any number of frames, whether the globe has mounted or not,
\* the rotation of the group holding the markers equals the rotation of the
\* earth mesh; the two refs are set together and advance by the same step
\* on the same frames, while the cloud mesh may advance at another rate.
C13_RotationSync ==
    /\ rotation.markers = rotation.earth
    /\ refs.rotator = refs.earth

\* reached: MaxFrames frames after the mount, the clouds ahead of the earth
C13_Witness ==
    /\ refs.earth /\ refs.rotator
    /\ rotation.earth = MaxFrames * EarthStep
    /\ rotation.markers = MaxFrames * EarthStep
    /\ rotation.clouds > rotation.earth

\* the markers that show the Selected state
SelectedMarkers == { n \in 1..Len(stations) : MarkerState(n) = "Selected" }

\* C14 as stated: whatever selections and catalog replacements came before,
\* at most one rendered marker is in the Selected state.
C14_AtMostOneSelected == Cardinality(SelectedMarkers) <= 1

\* a step of handleStationSelect that took the branch of a new station
SelectsNewStation ==
    /\ Len(insights') = Len(insights) + 1
    /\ aiInsight' = "Tuning in..."
    /\ \E n \in 1..Len(stations) : currentStation' = << stations[n] >>

\* C15: no step sets the selection back to none; the selection changes only
\* in a step of handleStationSelect for a station whose identifier differs
\* from the current one, and every such step changes it: selecting the
\* current station again starts nothing and leaves the selection as it is.
C15_SelectionNeverCleared ==
    [][ /\ currentStation # << >> => currentStation' # << >>
        /\ currentStation' # currentStation => SelectsNewStation
        /\ SelectsNewStation =>
              /\ currentStation' # currentStation
              /\ currentStation # << >> =>
                    currentStation'[1].stationuuid # currentStation[1].stationuuid
      ]_vars

\* reached: a station is selected and playing, a completed request has
\* replaced the catalog, and the catalog no longer holds the station
C15_Witness ==
    /\ currentStation # << >>
    /\ isPlaying
    /\ \E i \in 1..MaxRequests : reqs[i].pc = "done" /\ reqs[i].installs = 1
    /\ \A n \in 1..Len(stations) :
          stations[n].stationuuid # currentStation[1].stationuuid

\* C17 as stated: while the catalog stays, a marker changes state only
\* along Idle to Hovered on pointer-enter, Hovered to Idle on pointer-leave,
\* any state to Selected when its station is selected, and Selected to Idle
\* when another station is selected; pointer events leave a Selected marker
\* Selected.
C17_MarkerMachine ==
    [][ stations' = stations =>
          \A n \in 1..Len(stations) :
              LET id == stations[n].stationuuid
                  before == MarkerState(n)
                  after == MarkerState(n)'
              IN  /\ before # after =>
                        \/ /\ before = "Idle" /\ after = "Hovered"
                           /\ hovered' = hovered \cup {id}
                        \/ /\ before = "Hovered" /\ after = "Idle"
                           /\ hovered' = hovered \ {id}
                        \/ /\ after = "Selected"
                           /\ currentStation' = << stations[n] >>
                        \/ /\ before = "Selected" /\ after = "Idle"
                           /\ currentStation' # currentStation
                  /\ (before = "Selected" /\ hovered' # hovered) => after = "Selected"
      ]_vars

\* C18: a step that changes a rotation angle is a frame and changes nothing
\* else, so no selection, pointer event or query completion turns the
\* globe; across it every marker keeps its local position, which is the
\* projection of its latitude and longitude on the globe radius.
C18_FrameChangesRotationOnly ==
    [][ rotation' # rotation =>
          /\ UNCHANGED << stations, loading, aiInsight, initLoad, reqs, escaped,
                          currentStation, isPlaying, audio, insights, hovered, refs >>
          /\ \A n \in 1..Len(stations) :
                /\ MarkerPosition(n)' = MarkerPosition(n)
                /\ MarkerPosition(n)' =
                      [phi |-> 90 - OrZero(stations[n].geo_lat),
                       theta |-> OrZero(stations[n].geo_long) + 180,
                       radius |-> GLOBE_RADIUS]
      ]_vars

\* reached: the globe has turned MaxFrames frames under two markers, after
\* a selection and a completed search
C18_Witness ==
    /\ rotation.markers = MaxFrames * RotatorStep
    /\ Len(stations) = 2
    /\ currentStation # << >>
    /\ \E i \in 1..MaxRequests : reqs[i].pc = "done"

\* the texts the InferenceSource writes about the stations of the pool
InsightTexts == { InsightText(s.name) : s \in StationPool }

\* C20 as stated: once no insight request is pending, an insight text on
\* display is the one written for the station that is selected, whatever
\* the order in which the responses arrived.
C20_InsightMatchesSelection ==
    ( /\ insights = << >>
      /\ currentStation # << >>
      /\ aiInsight \in InsightTexts )
    => aiInsight = InsightText(currentStation[1].name)

(***************************************************************************)
(* Properties of overlapping requests.                                     *)
(***************************************************************************)
\* the catalog the initial load installs from its three settled queries
InitCatalog ==
    finalStations(initLoad.q["country"].value, initLoad.q["tag"].value,
                  initLoad.q["global"].value)

\* C16: a request once issued is never withdrawn, and the step in which a
\* request completes installs the result of that request whatever the other
\* requests have done meanwhile; so the initial load, issued first, can
\* install its catalog over that of a request which was issued later and
\* has completed already.
C16_EveryCompletionInstalls ==
    [][ /\ \A i \in 1..MaxRequests :
              /\ reqs[i].kind # "none" => reqs'[i].kind = reqs[i].kind
              /\ reqs[i].pc = "done" => reqs'[i] = reqs[i]
              /\ (reqs[i].pc # "done" /\ reqs'[i].pc = "done") =>
                    /\ reqs'[i].installs = 1
                    /\ stations' = reqs'[i].catalog
        /\ initLoad.pc = "done" => initLoad' = initLoad
        /\ (initLoad.pc = "waiting" /\ initLoad'.pc = "done") =>
              stations' = InitCatalog
      ]_vars

\* reached: every request issued after the initial load has completed with
\* a catalog, and the catalog on display is the other one, that of the
\* initial load, which completed last
C16_Witness ==
    /\ initLoad.pc = "done"
    /\ stations = InitCatalog
    /\ \E i \in 1..MaxRequests : reqs[i].pc = "done"
    /\ \A i \in 1..MaxRequests :
          /\ reqs[i].pc \in {"none", "done"}
          /\ reqs[i].pc = "done" => reqs[i].catalog # stations

\* a catalog request that has been issued and has not ended
InFlight ==
    \/ initLoad.pc = "waiting"
    \/ \E i \in 1..MaxRequests : reqs[i].pc \notin {"none", "done", "threw"}

\* C19 as stated: the loading flag is true while a catalog request is in
\* flight and false when none is.
C19_LoadingTracksInFlight == loading <=> InFlight

====
